---- MODULE Spec2Model ----
(***************************************************************************)
(* Model of the GitHub acquisition pipeline of Code-into-Clear:            *)
(* services/githubService.ts, fetchGithubCode(url, token).                 *)
(*                                                                         *)
(* One call of fetchGithubCode is a sequential process whose suspension    *)
(* points are its awaits.  `pc` is the await the call is parked on; every  *)
(* action is the synchronous code that runs between two awaits.  Remote    *)
(* responses are chosen by the environment when an await resolves.         *)
(*                                                                         *)
(* Strings are TLA+ strings (Len, SubSeq and \o apply to them).  An        *)
(* optional value (token?, node.size, string | null) is a sequence of      *)
(* length at most one: << >> is undefined/null, <<v>> is the value v.      *)
(* A file body is represented by its length (text.length is all the code   *)
(* reads of it besides its truthiness).                                    *)
(***************************************************************************)
EXTENDS Integers, Sequences, FiniteSets

VARIABLES
    url,                \* argument url
    token,              \* argument token?  (<< >> or <<string>>)
    pc,                 \* "start" | "awaitBlob" | "awaitRepoInfo" | "awaitTree" | "awaitFile" | "returned" | "thrown"
    requests,           \* every fetch() issued by the call, in order
    response,           \* the settled response / repoInfoRes / treeRes, most recent
    owner,              \* parts[0]
    repo,               \* parts[1]
    repoInfo,           \* await repoInfoRes.json()   (<< >> until assigned)
    treeData,           \* await treeRes.json()       (<< >> until assigned)
    sortedFiles,        \* the filtered tree
    idx,                \* position of the for-of iterator in sortedFiles (1-based)
    currentTotalChars,
    fetchedFileCount,
    fileContents,       \* the pushed blocks, each [path, len] (len = text.length)
    texts,              \* history: what each fetchFileContent call returned
    irregular,          \* history: number of file responses that differ from the declared size
    result,             \* the returned string, << >> until the call returns
    error,              \* message of the thrown Error, << >> until the call throws
    code,               \* App state: const [code, setCode]
    status,             \* App state: const [status, setStatus]
    errorMsg,           \* App state: const [errorMsg, setErrorMsg]   (<< >> for null)
    githubUrl,          \* App state: const [githubUrl, setGithubUrl]
    isLoadingGithub,    \* App state: const [isLoadingGithub, setIsLoadingGithub]
    pending             \* App: the promises and file reads in flight

\* the state of the App component
appVars == <<code, status, errorMsg, githubUrl, isLoadingGithub, pending>>

vars == <<url, token, pc, requests, response, owner, repo, repoInfo, treeData, sortedFiles, idx,
          currentTotalChars, fetchedFileCount, fileContents, texts, irregular, result, error,
          code, status, errorMsg, githubUrl, isLoadingGithub, pending>>

-----------------------------------------------------------------------------
(* Bounds of the model *)

\* largest number of generated source files in a tree listing
MaxCand == 21
\* largest number of file responses per call that deviate from the declared size
MaxIrregular == 1

-----------------------------------------------------------------------------
(* String helpers: the JavaScript String methods the code uses *)

None == << >>
Some(v) == <<v>>
IsSome(o) == Len(o) = 1
Get(o) == o[1]

\* JS truthiness of an optional string: undefined and "" are falsy
Truthy(o) == IsSome(o) /\ Get(o) # ""

CharAt(s, i) == SubSeq(s, i, i)

\* s.endsWith(suf)
EndsWith(s, suf) ==
    /\ Len(s) >= Len(suf)
    /\ SubSeq(s, Len(s) - Len(suf) + 1, Len(s)) = suf

\* s.startsWith(pre)
StartsWith(s, pre) ==
    /\ Len(s) >= Len(pre)
    /\ SubSeq(s, 1, Len(pre)) = pre

\* s.indexOf(sub), 1-based; 0 when absent
IndexOf(s, sub) ==
    LET hits == {i \in 1..(Len(s) - Len(sub) + 1) : SubSeq(s, i, i + Len(sub) - 1) = sub}
    IN  IF hits = {} THEN 0 ELSE CHOOSE i \in hits : \A j \in hits : i <= j

\* s.includes(sub)
Includes(s, sub) ==
    \E i \in 1..(Len(s) - Len(sub) + 1) : SubSeq(s, i, i + Len(sub) - 1) = sub

\* s.replace(pat, rep) with a string pattern: the first occurrence only
Replace(s, pat, rep) ==
    LET i == IndexOf(s, pat)
    IN  IF i = 0 THEN s
        ELSE SubSeq(s, 1, i - 1) \o rep \o SubSeq(s, i + Len(pat), Len(s))

UpperChars == "ABCDEFGHIJKLMNOPQRSTUVWXYZ"
LowerChars == "abcdefghijklmnopqrstuvwxyz"

\* the lower-case letter of every upper-case letter
LowerOf ==
    [c \in {CharAt(UpperChars, i) : i \in 1..Len(UpperChars)} |->
        CharAt(LowerChars, IndexOf(UpperChars, c))]

LowerChar(c) == IF c \in DOMAIN LowerOf THEN LowerOf[c] ELSE c

RECURSIVE ToLowerCase(_)
ToLowerCase(s) ==
    IF Len(s) = 0 THEN s
    ELSE LowerChar(CharAt(s, 1)) \o ToLowerCase(SubSeq(s, 2, Len(s)))

\* s.split(sep) for a one-character separator
RECURSIVE Split(_, _)
Split(s, sep) ==
    LET i == IndexOf(s, sep)
    IN  IF i = 0 THEN <<s>>
        ELSE <<SubSeq(s, 1, i - 1)>> \o Split(SubSeq(s, i + 1, Len(s)), sep)

\* decimal rendering of a natural number (template-literal interpolation)
DigitChars == "0123456789"
RECURSIVE NumberToString(_)
NumberToString(n) ==
    IF n < 10 THEN CharAt(DigitChars, n + 1)
    ELSE NumberToString(n \div 10) \o CharAt(DigitChars, (n % 10) + 1)

-----------------------------------------------------------------------------
(* Limits and file filter *)

MAX_FILES == 20
MAX_SINGLE_FILE_SIZE == 150000
MAX_TOTAL_CHARS == 800000

ignoredExtensions ==
    <<".png", ".jpg", ".jpeg", ".gif", ".svg", ".ico", ".pdf", ".zip",
      ".lock", ".json", ".md", ".txt", ".css", ".map", ".mp4", ".mp3",
      ".wav", ".woff", ".woff2", ".ttf", ".eot", ".csv", ".xml">>

ignoredEndings == <<".min.js", ".min.css", ".bundle.js", "-lock.yaml">>

ignoredDirs ==
    <<"node_modules", "dist", "build", ".git", ".github", "coverage",
      "__pycache__", "venv", "bin", "obj", "vendor", "public/assets">>

\* mutant of isCodeFile: the suffixes are compared without lower-casing the path
isCodeFile_CaseSensitive(path) ==
    IF \E i \in 1..Len(ignoredExtensions) : EndsWith(path, ignoredExtensions[i]) THEN FALSE
    ELSE IF \E i \in 1..Len(ignoredEndings) : EndsWith(path, ignoredEndings[i]) THEN FALSE
    ELSE TRUE

isCodeFile(path) ==
    LET lower == ToLowerCase(path)
    IN  IF \E i \in 1..Len(ignoredExtensions) : EndsWith(lower, ignoredExtensions[i]) THEN FALSE
        ELSE IF \E i \in 1..Len(ignoredEndings) : EndsWith(lower, ignoredEndings[i]) THEN FALSE
        ELSE TRUE

isIgnoredDir(path) ==
    \E i \in 1..Len(ignoredDirs) : Includes(path, ignoredDirs[i])

\* mutant of IsCandidate: a declared size equal to the per-file cap passes
IsCandidate_SizeInclusive(node) ==
    /\ node.type = "blob"
    /\ isCodeFile(node.path)
    /\ ~isIgnoredDir(node.path)
    /\ (node.size = None \/ Get(node.size) <= MAX_SINGLE_FILE_SIZE)

\* the predicate of treeData.tree.filter(...)
IsCandidate(node) ==
    /\ node.type = "blob"
    /\ isCodeFile(node.path)
    /\ ~isIgnoredDir(node.path)
    /\ (node.size = None \/ Get(node.size) < MAX_SINGLE_FILE_SIZE)

\* mutant of FilterTree: the candidates come out in reverse listing order
FilterTree_Reversed(tree) ==
    LET kept == SelectSeq(tree, IsCandidate)
    IN  [k \in 1..Len(kept) |-> kept[Len(kept) + 1 - k]]

\* array.filter keeps the elements that pass, in their order
FilterTree(tree) == SelectSeq(tree, IsCandidate)

-----------------------------------------------------------------------------
(* Locator handling *)

\* url.includes('/blob/') || url.includes('gist.github.com')
IsBlobOrGist(u) == Includes(u, "/blob/") \/ Includes(u, "gist.github.com")

RawUrl(u) ==
    IF Includes(u, "github.com") /\ ~Includes(u, "gist.github.com")
    THEN Replace(Replace(u, "github.com", "raw.githubusercontent.com"), "/blob/", "/")
    ELSE IF Includes(u, "gist.github.com")
    THEN Replace(u, "gist.github.com", "gist.githubusercontent.com") \o "/raw"
    ELSE u

\* mutant of UrlParses: the constructor accepts every string
UrlParses_Lenient(u) == TRUE

\* new URL(url): the locators of this model parse when they carry an http(s)
\* scheme followed by a host; anything else makes the constructor throw
UrlScheme(u) ==
    IF StartsWith(u, "https://") THEN "https://"
    ELSE IF StartsWith(u, "http://") THEN "http://"
    ELSE ""

UrlParses(u) ==
    LET rest == SubSeq(u, Len(UrlScheme(u)) + 1, Len(u))
    IN  /\ UrlScheme(u) # ""
        /\ Len(rest) > 0
        /\ CharAt(rest, 1) # "/"
        /\ ~Includes(rest, " ")

\* urlObj.pathname
Pathname(u) ==
    LET rest  == SubSeq(u, Len(UrlScheme(u)) + 1, Len(u))
        slash == IndexOf(rest, "/")
        tail  == IF slash = 0 THEN "/" ELSE SubSeq(rest, slash, Len(rest))
        q     == IndexOf(tail, "?")
        noQ   == IF q = 0 THEN tail ELSE SubSeq(tail, 1, q - 1)
        h     == IndexOf(noQ, "#")
    IN  IF h = 0 THEN noQ ELSE SubSeq(noQ, 1, h - 1)

NonEmpty(s) == s # ""

\* mutant of PathParts: the empty segments are kept
PathParts_NoFilter(u) == Split(Pathname(u), "/")

\* urlObj.pathname.split('/').filter(Boolean)
PathParts(u) == SelectSeq(Split(Pathname(u), "/"), NonEmpty)

\* createHeaders(): the header names attached to the API calls
createHeaders(tok) ==
    IF Truthy(tok) THEN {"Accept", "Authorization"} ELSE {"Accept"}

\* the headers option of the blob/gist fetch
BlobHeaders(tok) ==
    IF Truthy(tok) THEN {"Authorization"} ELSE {}

-----------------------------------------------------------------------------
(* The remote side: what the environment may answer *)

\* response.ok
Ok(statusCode) == statusCode >= 200 /\ statusCode <= 299

Locators ==
    { "",
      "   ",
      "github.com/octo/app",
      "https://github.com/octo",
      "https://github.com/octo/app",
      "https://github.com/octo/app/blob/main/src/a.ts",
      "https://gist.github.com/octo/abc123",
      "https://example.com/octo/app/blob/main/a.ts" }

Tokens == { None, Some("ghp_t") }

\* bodies a raw host can serve for a blob or gist
Bodies == { "", "x = 1", "// Repository: octo/app\n// Analyzed Files: 1\n" }

\* a settled fetch is a response; a network failure rejects with a TypeError
Rejections == { [type |-> "reject", message |-> "Failed to fetch"],
                [type |-> "reject", message |-> ""] }

BlobResponses ==
    { [type |-> "response", status |-> 200, statusText |-> "OK", body |-> b] : b \in Bodies }
    \cup { [type |-> "response", status |-> 404, statusText |-> "Not Found", body |-> "404: Not Found"],
           [type |-> "response", status |-> 403, statusText |-> "Forbidden", body |-> ""],
           [type |-> "response", status |-> 500, statusText |-> "", body |-> ""] }
    \cup Rejections

RepoInfos ==
    { [default_branch |-> Some("dev"), private |-> TRUE],
      [default_branch |-> None, private |-> FALSE] }

RepoInfoResponses ==
    { [type |-> "response", status |-> 200, statusText |-> "OK", json |-> j] : j \in RepoInfos }
    \cup { [type |-> "response", status |-> st[1], statusText |-> st[2], json |-> CHOOSE j \in RepoInfos : TRUE] :
             st \in { <<403, "Forbidden">>, <<404, "Not Found">>, <<500, "Internal Server Error">>, <<301, "">> } }
    \cup Rejections

\* tree nodes
Node(path, type, size) == [path |-> path, type |-> type, size |-> size]

GenPath(k) == "src/f" \o NumberToString(k) \o ".ts"

\* a listing of n generated source files, each declaring size sz
Plain(n, sz) == [k \in 1..n |-> Node(GenPath(k), "blob", Some(sz))]

\* a listing that mixes sources with everything the filter is there to drop
Mixed ==
    << Node("assets/logo.png", "blob", Some(10)),
       Node("src", "tree", None),
       Node("src/main.ts", "blob", Some(1)),
       Node("yarn.lock", "blob", Some(1)),
       Node("LOGO.PNG", "blob", None),
       Node("node_modules/left-pad/index.js", "blob", Some(1)),
       Node("lib/nosize.py", "blob", None),
       Node("src/huge.ts", "blob", Some(150000)),
       Node("Cargo.LOCK", "blob", Some(1)),
       Node("src/distance.ts", "blob", Some(1)),
       Node("src/app.min.js", "blob", Some(1)),
       Node("src/almost.ts", "blob", Some(149999)),
       Node("README.md", "blob", Some(1)),
       Node("a.go", "blob", Some(1)) >>

OnlyJunk ==
    << Node("package.json", "blob", Some(1)),
       Node("dist/index.js", "blob", Some(1)),
       Node("docs", "tree", None) >>

DeclaredSizes == { 1, 149999 }

\* listing sizes: none, one, two, exactly MAX_FILES, and more than MAX_FILES
TreeSizes == { 0, 1, 2, MAX_FILES, MaxCand }

Trees ==
    { Plain(n, sz) : n \in TreeSizes, sz \in DeclaredSizes } \cup { Mixed, OnlyJunk }

TreeDatas ==
    { [tree |-> t, truncated |-> FALSE] : t \in Trees }
    \cup { [tree |-> Mixed, truncated |-> TRUE] }

TreeResponses ==
    { [type |-> "response", status |-> 200, json |-> j] : j \in TreeDatas }
    \cup { [type |-> "response", status |-> st, json |-> CHOOSE j \in TreeDatas : TRUE] : st \in {403, 404, 409} }
    \cup Rejections

-----------------------------------------------------------------------------
(* Per-file transport: fetchFileContent *)

\* body lengths a file response may carry besides the declared size
BodyLengths == { 0, 1, MAX_SINGLE_FILE_SIZE, MAX_SINGLE_FILE_SIZE + 1 }

\* the base64 text of a body of n characters, as the contents endpoint sends it:
\* `chars` base64 characters of which `pad` are '=', broken by `newlines` line feeds
Base64Of(n) ==
    LET chars == 4 * ((n + 2) \div 3)
    IN  [chars |-> chars, pad |-> (3 - (n % 3)) % 3, newlines |-> (chars + 59) \div 60, valid |-> TRUE]

\* atob(content.replace(/\n/g, '')).length
AtobLength(content) == (content.chars \div 4) * 3 - content.pad

\* the JSON envelopes of the contents endpoint
Envelopes(lens) ==
    { [content |-> Some(Base64Of(n)), encoding |-> "base64"] : n \in lens }

BadEnvelopes ==
    { [content |-> None, encoding |-> "base64"],
      [content |-> Some(Base64Of(1)), encoding |-> "none"],
      [content |-> Some([chars |-> 5, pad |-> 0, newlines |-> 0, valid |-> FALSE]), encoding |-> "base64"] }

\* answers of the raw-content host to GET <path>
RawFileResponses(lens) ==
    { [type |-> "response", status |-> 200, length |-> n] : n \in lens }
    \cup { [type |-> "response", status |-> 404, length |-> 14] }
    \cup Rejections

\* answers of the contents endpoint to GET <path>
ApiFileResponses(lens) ==
    { [type |-> "response", status |-> 200, json |-> e] : e \in Envelopes(lens) \cup BadEnvelopes }
    \cup { [type |-> "response", status |-> st, json |-> [content |-> None, encoding |-> "none"]] : st \in {403, 404} }
    \cup Rejections

\* fetchFileContent, from the settled fetch to the returned string | null
\* (a string is represented by its length)
fetchFileContent(tok, resp) ==
    IF Truthy(tok)
    THEN IF resp.type = "reject" THEN None
         ELSE IF ~Ok(resp.status) THEN None
         ELSE IF ~(IsSome(resp.json.content)
                   /\ Get(resp.json.content).chars + Get(resp.json.content).newlines > 0
                   /\ resp.json.encoding = "base64") THEN None
         ELSE IF ~Get(resp.json.content).valid THEN None
         ELSE Some(AtobLength(Get(resp.json.content)))
    ELSE IF resp.type = "reject" THEN None
         ELSE IF Ok(resp.status) THEN Some(resp.length)
         ELSE None

\* mutant of FileRequest: every file is fetched from the raw host, token or not
FileRequest_AlwaysRaw(tok, o, r, branch, path) ==
    [kind |-> "rawfile",
     url |-> "https://raw.githubusercontent.com/" \o o \o "/" \o r \o "/" \o branch \o "/" \o path,
     headers |-> {},
     path |-> path]

\* the request fetchFileContent issues for a path
FileRequest(tok, o, r, branch, path) ==
    IF Truthy(tok)
    THEN [kind |-> "contents",
          url |-> "https://api.github.com/repos/" \o o \o "/" \o r \o "/contents/" \o path \o "?ref=" \o branch,
          headers |-> createHeaders(tok),
          path |-> path]
    ELSE [kind |-> "rawfile",
          url |-> "https://raw.githubusercontent.com/" \o o \o "/" \o r \o "/" \o branch \o "/" \o path,
          headers |-> {},
          path |-> path]

\* const branch = repoInfo.default_branch || 'main'
Branch(info) == IF Truthy(info.default_branch) THEN Get(info.default_branch) ELSE "main"

-----------------------------------------------------------------------------
(* Content assembly *)

\* one pushed element of fileContents, for a path and a text of `len` characters
Block(path, len) == [path |-> path, len |-> len]

\* the length of `\n\n--- START OF FILE: ${path} ---\n${text}\n--- END OF FILE: ${path} ---\n`
BlockLength(b) ==
    Len("\n\n--- START OF FILE: ") + Len(b.path) + Len(" ---\n") + b.len
    + Len("\n--- END OF FILE: ") + Len(b.path) + Len(" ---\n")

RECURSIVE JoinLength(_)
JoinLength(blocks) ==
    IF blocks = << >> THEN 0 ELSE BlockLength(Head(blocks)) + JoinLength(Tail(blocks))

\* mutant of TruncatedField: the file-count cap is taken for the size limit
TruncatedField_CountCap(total) ==
    IF total >= MAX_FILES THEN "Yes (Size Limit)" ELSE "No"

TruncatedField(total) ==
    IF total >= MAX_TOTAL_CHARS THEN "Yes (Size Limit)" ELSE "No"

HeaderText(o, r, info, count, total) ==
    "// Repository: " \o o \o "/" \o r \o (IF info.private THEN " (Private)" ELSE "")
    \o "\n// Analyzed Files: " \o NumberToString(count)
    \o "\n// Truncated: " \o TruncatedField(total) \o "\n"

\* the string `result`: its header text, its file blocks, and its length
Bundle(o, r, info, count, total, blocks) ==
    LET header == HeaderText(o, r, info, count, total)
    IN  [kind |-> "bundle", header |-> header, files |-> blocks,
         length |-> Len(header) + JoinLength(blocks)]

\* result.length < 50
TooShort(res) == res.length < 50

\* handleAnalyze's size check on the text it is given: code.length > 900000
TooLargeToAnalyze(length) == length > 900000

\* catch (error) { throw new Error(error.message || "Failed to fetch from GitHub.") }
Rethrown(message) == IF message # "" THEN message ELSE "Failed to fetch from GitHub."

-----------------------------------------------------------------------------
(* fetchGithubCode *)

\* the App component as useState leaves it, with nothing in flight
AppIdle ==
    /\ code = [text |-> "", length |-> 0]
    /\ status = "IDLE"
    /\ errorMsg = None
    /\ githubUrl = ""
    /\ isLoadingGithub = FALSE
    /\ pending = << >>

Init ==
    /\ AppIdle
    /\ url \in Locators
    /\ token \in Tokens
    /\ pc = "start"
    /\ requests = << >>
    /\ response = None
    /\ owner = ""
    /\ repo = ""
    /\ repoInfo = None
    /\ treeData = None
    /\ sortedFiles = << >>
    /\ idx = 0
    /\ currentTotalChars = 0
    /\ fetchedFileCount = 0
    /\ fileContents = << >>
    /\ texts = << >>
    /\ irregular = 0
    /\ result = None
    /\ error = None

\* throw: the call rejects with this message
Throw(message) ==
    /\ pc' = "thrown"
    /\ error' = Some(message)
    /\ result' = result

\* return: the call resolves with this value
Return(value) ==
    /\ pc' = "returned"
    /\ result' = Some(value)
    /\ error' = error

\* mutant of BlobResult: the body is wrapped in file markers like a bundle block
BlobResult_Wrapped(resp) ==
    [kind |-> "raw", text |-> "--- START OF FILE ---\n" \o resp.body \o "\n--- END OF FILE ---\n"]

\* the string a blob/gist acquisition returns: await response.text()
BlobResult(resp) == [kind |-> "raw", text |-> resp.body]

\* the message thrown for a 404 of the blob/gist fetch
FileNotFoundMessage(tok) ==
    "File not found. " \o (IF Truthy(tok) THEN "Check if the URL is correct."
                           ELSE "It might be private - add a GitHub token to access.")

\* mutant of RepoNotFoundMessage: the two wordings are swapped
RepoNotFoundMessage_Swapped(tok) ==
    "Repository not found. " \o (IF Truthy(tok) THEN "It might be private - add a GitHub token to access."
                                 ELSE "Check if the URL is correct and you have access.")

\* the message thrown for a 404 of the repository metadata call
RepoNotFoundMessage(tok) ==
    "Repository not found. " \o (IF Truthy(tok) THEN "Check if the URL is correct and you have access."
                                 ELSE "It might be private - add a GitHub token to access.")

\* mutant of LoopContinues: the aggregate-size break is missing
LoopContinues_NoSizeBreak(files, i, count, total) ==
    /\ i <= Len(files)
    /\ ~(count >= MAX_FILES)

\* mutant of LoopContinues: the file-count break is missing
LoopContinues_NoCountBreak(files, i, count, total) ==
    /\ i <= Len(files)
    /\ ~(total >= MAX_TOTAL_CHARS)

\* mutant of LoopContinues: the file-count break is off by one (> for >=)
LoopContinues_CountOffByOne(files, i, count, total) ==
    /\ i <= Len(files)
    /\ ~(count > MAX_FILES)
    /\ ~(total >= MAX_TOTAL_CHARS)

\* mutant of LoopContinues: the aggregate-size break allows a whole file of overshoot
LoopContinues_SizeBreakLate(files, i, count, total) ==
    /\ i <= Len(files)
    /\ ~(count >= MAX_FILES)
    /\ ~(total >= MAX_TOTAL_CHARS + MAX_SINGLE_FILE_SIZE)

\* mutant of LoopContinues: the loop stops before the last element
LoopContinues_SkipsLast(files, i, count, total) ==
    /\ i <= Len(files) - 1
    /\ ~(count >= MAX_FILES)
    /\ ~(total >= MAX_TOTAL_CHARS)

\* the two loop-head tests of `for (const file of sortedFiles)`:
\* another element is left, and neither break fires
LoopContinues(files, i, count, total) ==
    /\ i <= Len(files)
    /\ ~(count >= MAX_FILES)
    /\ ~(total >= MAX_TOTAL_CHARS)

\* mutant of LoopBody: the counter is advanced before the post-fetch size check
LoopBody_CountsDiscarded(path, text, count, total, blocks) ==
    IF IsSome(text) /\ Get(text) # 0
    THEN IF Get(text) > MAX_SINGLE_FILE_SIZE
         THEN [count |-> count + 1, total |-> total, blocks |-> blocks]
         ELSE [count |-> count + 1, total |-> total + Get(text),
               blocks |-> Append(blocks, Block(path, Get(text)))]
    ELSE [count |-> count, total |-> total, blocks |-> blocks]

\* mutant of LoopBody: the post-fetch size check is missing
LoopBody_KeepsOversize(path, text, count, total, blocks) ==
    IF IsSome(text) /\ Get(text) # 0
    THEN [count |-> count + 1, total |-> total + Get(text),
          blocks |-> Append(blocks, Block(path, Get(text)))]
    ELSE [count |-> count, total |-> total, blocks |-> blocks]

\* mutant of LoopBody: a fetch that returned null still uses up a slot of the file count
LoopBody_FailureCounts(path, text, count, total, blocks) ==
    IF IsSome(text) /\ Get(text) # 0
    THEN IF Get(text) > MAX_SINGLE_FILE_SIZE
         THEN [count |-> count, total |-> total, blocks |-> blocks]
         ELSE [count |-> count + 1, total |-> total + Get(text),
               blocks |-> Append(blocks, Block(path, Get(text)))]
    ELSE [count |-> count + (IF IsSome(text) THEN 0 ELSE 1), total |-> total, blocks |-> blocks]

\* mutant of LoopBody: an empty body is pushed like any other
LoopBody_KeepsEmpty(path, text, count, total, blocks) ==
    IF IsSome(text)
    THEN IF Get(text) > MAX_SINGLE_FILE_SIZE
         THEN [count |-> count, total |-> total, blocks |-> blocks]
         ELSE [count |-> count + 1, total |-> total + Get(text),
               blocks |-> Append(blocks, Block(path, Get(text)))]
    ELSE [count |-> count, total |-> total, blocks |-> blocks]

\* the loop body after the await: the counters and the list it leaves behind
LoopBody(path, text, count, total, blocks) ==
    IF IsSome(text) /\ Get(text) # 0
    THEN IF Get(text) > MAX_SINGLE_FILE_SIZE
         THEN [count |-> count, total |-> total, blocks |-> blocks]
         ELSE [count |-> count + 1, total |-> total + Get(text),
               blocks |-> Append(blocks, Block(path, Get(text)))]
    ELSE [count |-> count, total |-> total, blocks |-> blocks]

\* mutant of NoSuitableFiles: the empty check never fires
NoSuitableFiles_Never(files) == Len(files) < 0

\* sortedFiles.length === 0
NoSuitableFiles(files) == Len(files) = 0

\* mutant of ForLoop: leaving the loop through one of the two breaks is an error
ForLoop_CapThrows(files, i, count, total, blocks) ==
    /\ idx' = i
    /\ fetchedFileCount' = count
    /\ currentTotalChars' = total
    /\ fileContents' = blocks
    /\ IF LoopContinues(files, i, count, total)
       THEN /\ requests' = Append(requests,
                               FileRequest(token, owner, repo, Branch(Get(repoInfo)), files[i].path))
            /\ pc' = "awaitFile"
            /\ UNCHANGED <<result, error>>
       ELSE /\ requests' = requests
            /\ LET res == Bundle(owner, repo, Get(repoInfo), count, total, blocks)
               IN  IF TooShort(res) \/ i <= Len(files)
                   THEN Throw(Rethrown("Failed to retrieve any file content from this repository."))
                   ELSE Return(res)

\* mutant of ForLoop: after the loop the call waits on something that never settles
ForLoop_HangsAfterLoop(files, i, count, total, blocks) ==
    /\ idx' = i
    /\ fetchedFileCount' = count
    /\ currentTotalChars' = total
    /\ fileContents' = blocks
    /\ IF LoopContinues(files, i, count, total)
       THEN /\ requests' = Append(requests,
                               FileRequest(token, owner, repo, Branch(Get(repoInfo)), files[i].path))
            /\ pc' = "awaitFile"
            /\ UNCHANGED <<result, error>>
       ELSE /\ requests' = requests
            /\ pc' = "awaitNever"
            /\ UNCHANGED <<result, error>>

\* mutant of ForLoop: the fetch of the following element is started together with
\* the fetch of element i
ForLoop_Prefetch(files, i, count, total, blocks) ==
    /\ idx' = i
    /\ fetchedFileCount' = count
    /\ currentTotalChars' = total
    /\ fileContents' = blocks
    /\ IF LoopContinues(files, i, count, total)
       THEN /\ requests' = requests \o
                   [k \in 1..(IF i < Len(files) THEN 2 ELSE 1) |->
                      FileRequest(token, owner, repo, Branch(Get(repoInfo)), files[i + k - 1].path)]
            /\ pc' = "awaitFile"
            /\ UNCHANGED <<result, error>>
       ELSE /\ requests' = requests
            /\ LET res == Bundle(owner, repo, Get(repoInfo), count, total, blocks)
               IN  IF TooShort(res)
                   THEN Throw(Rethrown("Failed to retrieve any file content from this repository."))
                   ELSE Return(res)

\* The synchronous run of the loop from its head at element i up to the next
\* await (the fetch of element i) or, past the loop, the assembly and the return.
ForLoop(files, i, count, total, blocks) ==
    /\ idx' = i
    /\ fetchedFileCount' = count
    /\ currentTotalChars' = total
    /\ fileContents' = blocks
    /\ IF LoopContinues(files, i, count, total)
       THEN /\ requests' = Append(requests,
                               FileRequest(token, owner, repo, Branch(Get(repoInfo)), files[i].path))
            /\ pc' = "awaitFile"
            /\ UNCHANGED <<result, error>>
       ELSE /\ requests' = requests
            /\ LET res == Bundle(owner, repo, Get(repoInfo), count, total, blocks)
               IN  IF TooShort(res)
                   THEN Throw(Rethrown("Failed to retrieve any file content from this repository."))
                   ELSE Return(res)

\* lines 3-72: argument check, classification, and the first fetch
Begin ==
    /\ pc = "start"
    /\ UNCHANGED appVars
    /\ UNCHANGED <<url, token, response, repoInfo, treeData, sortedFiles, idx, currentTotalChars,
                   fetchedFileCount, fileContents, texts, irregular>>
    /\ IF url = ""
       THEN /\ Throw("URL is required")
            /\ UNCHANGED <<requests, owner, repo>>
       ELSE IF IsBlobOrGist(url)
       THEN /\ requests' = <<[kind |-> "blob", url |-> RawUrl(url),
                              headers |-> BlobHeaders(token), path |-> ""]>>
            /\ pc' = "awaitBlob"
            /\ UNCHANGED <<owner, repo, result, error>>
       ELSE IF ~UrlParses(url)
       THEN /\ Throw(Rethrown("Invalid URL"))
            /\ UNCHANGED <<requests, owner, repo>>
       ELSE IF Len(PathParts(url)) < 2
       THEN /\ Throw(Rethrown("Invalid GitHub Repository URL. Format should be https://github.com/owner/repo"))
            /\ UNCHANGED <<requests, owner, repo>>
       ELSE /\ owner' = PathParts(url)[1]
            /\ repo' = PathParts(url)[2]
            /\ requests' = <<[kind |-> "repo",
                              url |-> "https://api.github.com/repos/" \o PathParts(url)[1] \o "/" \o PathParts(url)[2],
                              headers |-> createHeaders(token), path |-> ""]>>
            /\ pc' = "awaitRepoInfo"
            /\ UNCHANGED <<result, error>>

\* lines 52-59: the blob/gist fetch settles
BlobSettles ==
    /\ pc = "awaitBlob"
    /\ UNCHANGED appVars
    /\ UNCHANGED <<url, token, requests, owner, repo, repoInfo, treeData, sortedFiles, idx,
                   currentTotalChars, fetchedFileCount, fileContents, texts, irregular>>
    /\ \E resp \in BlobResponses :
         /\ response' = Some(resp)
         /\ IF resp.type = "reject" THEN Throw(Rethrown(resp.message))
            ELSE IF ~Ok(resp.status)
            THEN IF resp.status = 404
                 THEN Throw(Rethrown(FileNotFoundMessage(token)))
                 ELSE Throw(Rethrown("Failed to fetch file: " \o resp.statusText))
            ELSE Return(BlobResult(resp))

\* mutant of RepoInfoFailure: 403 is not singled out and falls into the generic error
RepoInfoFailure_No403(tok, resp) ==
    IF resp.status = 404 THEN Some(RepoNotFoundMessage(tok))
    ELSE IF ~Ok(resp.status) THEN Some("GitHub API Error: " \o resp.statusText)
    ELSE None

\* the failure of the metadata call for a status, << >> when it is none
RepoInfoFailure(tok, resp) ==
    IF resp.status = 403
    THEN Some("GitHub API rate limit exceeded. Please try again later or add a GitHub token for higher limits.")
    ELSE IF resp.status = 404 THEN Some(RepoNotFoundMessage(tok))
    ELSE IF ~Ok(resp.status) THEN Some("GitHub API Error: " \o resp.statusText)
    ELSE None

\* lines 72-84: the metadata call settles; the tree call is issued
RepoInfoSettles ==
    /\ pc = "awaitRepoInfo"
    /\ UNCHANGED appVars
    /\ UNCHANGED <<url, token, owner, repo, treeData, sortedFiles, idx,
                   currentTotalChars, fetchedFileCount, fileContents, texts, irregular>>
    /\ \E resp \in RepoInfoResponses :
         /\ response' = Some(resp)
         /\ IF resp.type = "reject"
            THEN Throw(Rethrown(resp.message)) /\ UNCHANGED <<requests, repoInfo>>
            ELSE IF IsSome(RepoInfoFailure(token, resp))
            THEN Throw(Rethrown(Get(RepoInfoFailure(token, resp)))) /\ UNCHANGED <<requests, repoInfo>>
            ELSE /\ repoInfo' = Some(resp.json)
                 /\ requests' = Append(requests,
                       [kind |-> "tree",
                        url |-> "https://api.github.com/repos/" \o owner \o "/" \o repo
                                \o "/git/trees/" \o Branch(resp.json) \o "?recursive=1",
                        headers |-> createHeaders(token), path |-> ""])
                 /\ pc' = "awaitTree"
                 /\ UNCHANGED <<result, error>>

\* mutant of TreeFailure: a 403 of the tree call is reported as the rate limit
TreeFailure_RateLimit403(resp) ==
    IF resp.status = 403
    THEN Some("GitHub API rate limit exceeded. Please try again later or add a GitHub token for higher limits.")
    ELSE IF ~Ok(resp.status) THEN Some("Failed to fetch repository structure.")
    ELSE None

\* mutant of TreeFailure: the status of the tree call is not looked at
TreeFailure_Ignored(resp) == None

\* line 86: the failure of the tree call for a status, << >> when it is none
TreeFailure(resp) ==
    IF ~Ok(resp.status) THEN Some("Failed to fetch repository structure.") ELSE None

\* lines 84-153: the tree call settles; filter, empty check, first loop head
TreeSettlesWith(responses) ==
    /\ pc = "awaitTree"
    /\ UNCHANGED appVars
    /\ UNCHANGED <<url, token, owner, repo, repoInfo, texts, irregular>>
    /\ \E resp \in responses :
         /\ response' = Some(IF resp.type = "reject" THEN resp
                             ELSE [type |-> "response", status |-> resp.status])
         /\ IF resp.type = "reject"
            THEN /\ Throw(Rethrown(resp.message))
                 /\ UNCHANGED <<requests, treeData, sortedFiles, idx, currentTotalChars,
                                fetchedFileCount, fileContents>>
            ELSE IF IsSome(TreeFailure(resp))
            THEN /\ Throw(Rethrown(Get(TreeFailure(resp))))
                 /\ UNCHANGED <<requests, treeData, sortedFiles, idx, currentTotalChars,
                                fetchedFileCount, fileContents>>
            ELSE /\ treeData' = Some(resp.json)
                 /\ sortedFiles' = FilterTree(resp.json.tree)
                 /\ IF NoSuitableFiles(FilterTree(resp.json.tree))
                    THEN /\ Throw(Rethrown("No suitable source code files found in this repository."))
                         /\ UNCHANGED <<requests, idx, currentTotalChars, fetchedFileCount, fileContents>>
                    ELSE ForLoop(FilterTree(resp.json.tree), 1, 0, 0, << >>)

TreeSettles == TreeSettlesWith(TreeResponses)

\* what the environment may answer to the fetch of a candidate
FileResponses(tok, node) ==
    LET lens == BodyLengths \cup (IF IsSome(node.size) THEN {Get(node.size)} ELSE {})
    IN  IF Truthy(tok) THEN ApiFileResponses(lens) ELSE RawFileResponses(lens)

\* a response that does not deliver the size the listing declared
Irregular(node, text) ==
    IF IsSome(node.size) THEN text # node.size ELSE text = None

\* lines 153-171: the fetch of sortedFiles[idx] settles; loop body, next loop head
FileSettles ==
    /\ pc = "awaitFile"
    /\ UNCHANGED appVars
    /\ UNCHANGED <<url, token, response, owner, repo, repoInfo, treeData, sortedFiles>>
    /\ \E resp \in FileResponses(token, sortedFiles[idx]) :
         LET file == sortedFiles[idx]
             text == fetchFileContent(token, resp)
             next == LoopBody(file.path, text, fetchedFileCount, currentTotalChars, fileContents)
             irr  == irregular + (IF Irregular(file, text) THEN 1 ELSE 0)
         IN  /\ irr <= MaxIrregular
             /\ irregular' = irr
             /\ texts' = Append(texts, [path |-> file.path, text |-> text])
             /\ ForLoop(sortedFiles, idx + 1, next.count, next.total, next.blocks)

\* the forms a locator can take: blank, without scheme, with fewer or more than
\* two path segments, with doubled or trailing slashes, query, fragment, and the
\* blob and gist forms
LocatorForms ==
    Locators \cup
    { "\t", " \n ",
      "https://github.com",
      "https://github.com/",
      "https://github.com/octo/",
      "https://github.com//octo//",
      "https://github.com/?tab=a/b",
      "https://github.com/octo#x/y",
      "https://github.com/octo/app/",
      "https://github.com//octo//app",
      "https://github.com/octo/app/tree/main/src",
      "https://github.com/octo/app?tab=readme",
      "https://github.com/octo/app.git",
      "http://example.org/a/b",
      "gist.github.com" }

\* a call with any form of locator
InitLocators ==
    /\ AppIdle
    /\ url \in LocatorForms
    /\ token \in Tokens
    /\ pc = "start"
    /\ requests = << >>
    /\ response = None
    /\ owner = ""
    /\ repo = ""
    /\ repoInfo = None
    /\ treeData = None
    /\ sortedFiles = << >>
    /\ idx = 0
    /\ currentTotalChars = 0
    /\ fetchedFileCount = 0
    /\ fileContents = << >>
    /\ texts = << >>
    /\ irregular = 0
    /\ result = None
    /\ error = None

\* the call up to the request for the tree
NextLocators ==
    \/ Begin
    \/ BlobSettles
    \/ RepoInfoSettles

SpecLocators == InitLocators /\ [][NextLocators]_vars

-----------------------------------------------------------------------------
(* Two invocations of fetchGithubCode with their awaits interleaved.  Every
   variable holds, per invocation, what it holds for the single call above:
   pc[c] is where invocation c is parked, texts[c] what its fetches returned.
   The three bindings declared at lines 112-114 are reached through
   CounterCell and ListCell. *)

Calls == {1, 2}

\* mutant of CounterCell: one pair of counters serves every invocation
CounterCell_Shared(c) == 1

\* `let currentTotalChars = 0; let fetchedFileCount = 0;` inside the function
\* body: each invocation binds its own pair
CounterCell(c) == c

\* mutant of ListCell: one list serves every invocation
ListCell_Shared(c) == 1

\* `const fileContents: string[] = [];` inside the function body: each
\* invocation binds its own array
ListCell(c) == c

\* both invocations are repository acquisitions
ConcurrentLocators == { "https://github.com/octo/app" }

\* listings of two small files, and of seven files six of which fill the budget
ConcurrentTrees == { Plain(2, 1), Plain(7, 149999) }

ConcurrentRepoInfoResponses ==
    { r \in RepoInfoResponses :
        /\ r.type = "response"
        /\ r.status \in {200, 404}
        /\ r.json.private }

ConcurrentTreeResponses ==
    { [type |-> "response", status |-> 200, json |-> [tree |-> t, truncated |-> FALSE]] :
        t \in ConcurrentTrees }
    \cup { [type |-> "response", status |-> 404, json |-> [tree |-> << >>, truncated |-> FALSE]] }

InitConcurrent ==
    /\ AppIdle
    /\ url \in [Calls -> ConcurrentLocators]
    /\ token \in { t \in [Calls -> Tokens] : t[1] = None }
    /\ pc = [c \in Calls |-> "start"]
    /\ requests = [c \in Calls |-> << >>]
    /\ response = [c \in Calls |-> None]
    /\ owner = [c \in Calls |-> ""]
    /\ repo = [c \in Calls |-> ""]
    /\ repoInfo = [c \in Calls |-> None]
    /\ treeData = [c \in Calls |-> None]
    /\ sortedFiles = [c \in Calls |-> << >>]
    /\ idx = [c \in Calls |-> 0]
    /\ currentTotalChars = [c \in Calls |-> 0]
    /\ fetchedFileCount = [c \in Calls |-> 0]
    /\ fileContents = [c \in Calls |-> << >>]
    /\ texts = [c \in Calls |-> << >>]
    /\ irregular = 0
    /\ result = [c \in Calls |-> None]
    /\ error = [c \in Calls |-> None]

\* invocation c rejects with this message
CallThrow(c, message) ==
    /\ pc' = [pc EXCEPT ![c] = "thrown"]
    /\ error' = [error EXCEPT ![c] = Some(message)]
    /\ result' = result

\* invocation c resolves with this value
CallReturn(c, value) ==
    /\ pc' = [pc EXCEPT ![c] = "returned"]
    /\ result' = [result EXCEPT ![c] = Some(value)]
    /\ error' = error

\* ForLoop for invocation c
CallForLoop(c, files, i, count, total, blocks) ==
    /\ idx' = [idx EXCEPT ![c] = i]
    /\ fetchedFileCount' = [fetchedFileCount EXCEPT ![CounterCell(c)] = count]
    /\ currentTotalChars' = [currentTotalChars EXCEPT ![CounterCell(c)] = total]
    /\ fileContents' = [fileContents EXCEPT ![ListCell(c)] = blocks]
    /\ IF LoopContinues(files, i, count, total)
       THEN /\ requests' = [requests EXCEPT ![c] = Append(@,
                               FileRequest(token[c], owner[c], repo[c], Branch(Get(repoInfo[c])), files[i].path))]
            /\ pc' = [pc EXCEPT ![c] = "awaitFile"]
            /\ UNCHANGED <<result, error>>
       ELSE /\ requests' = requests
            /\ LET res == Bundle(owner[c], repo[c], Get(repoInfo[c]), count, total, blocks)
               IN  IF TooShort(res)
                   THEN CallThrow(c, Rethrown("Failed to retrieve any file content from this repository."))
                   ELSE CallReturn(c, res)

\* Begin for invocation c, on a repository locator
CallBegin(c) ==
    /\ pc[c] = "start"
    /\ UNCHANGED appVars
    /\ url[c] # ""
    /\ ~IsBlobOrGist(url[c])
    /\ UrlParses(url[c])
    /\ Len(PathParts(url[c])) >= 2
    /\ UNCHANGED <<url, token, response, repoInfo, treeData, sortedFiles, idx, currentTotalChars,
                   fetchedFileCount, fileContents, texts, irregular, result, error>>
    /\ owner' = [owner EXCEPT ![c] = PathParts(url[c])[1]]
    /\ repo' = [repo EXCEPT ![c] = PathParts(url[c])[2]]
    /\ requests' = [requests EXCEPT ![c] =
                      <<[kind |-> "repo",
                         url |-> "https://api.github.com/repos/" \o PathParts(url[c])[1] \o "/" \o PathParts(url[c])[2],
                         headers |-> createHeaders(token[c]), path |-> ""]>>]
    /\ pc' = [pc EXCEPT ![c] = "awaitRepoInfo"]

\* RepoInfoSettles for invocation c
CallRepoInfoSettles(c) ==
    /\ pc[c] = "awaitRepoInfo"
    /\ UNCHANGED appVars
    /\ UNCHANGED <<url, token, owner, repo, treeData, sortedFiles, idx,
                   currentTotalChars, fetchedFileCount, fileContents, texts, irregular>>
    /\ \E resp \in ConcurrentRepoInfoResponses :
         /\ response' = [response EXCEPT ![c] = Some(resp)]
         /\ IF IsSome(RepoInfoFailure(token[c], resp))
            THEN /\ CallThrow(c, Rethrown(Get(RepoInfoFailure(token[c], resp))))
                 /\ UNCHANGED <<requests, repoInfo>>
            ELSE /\ repoInfo' = [repoInfo EXCEPT ![c] = Some(resp.json)]
                 /\ requests' = [requests EXCEPT ![c] = Append(@,
                       [kind |-> "tree",
                        url |-> "https://api.github.com/repos/" \o owner[c] \o "/" \o repo[c]
                                \o "/git/trees/" \o Branch(resp.json) \o "?recursive=1",
                        headers |-> createHeaders(token[c]), path |-> ""])]
                 /\ pc' = [pc EXCEPT ![c] = "awaitTree"]
                 /\ UNCHANGED <<result, error>>

\* TreeSettles for invocation c; the declarations at lines 112-114 run here
CallTreeSettles(c) ==
    /\ pc[c] = "awaitTree"
    /\ UNCHANGED appVars
    /\ UNCHANGED <<url, token, owner, repo, repoInfo, texts, irregular>>
    /\ \E resp \in ConcurrentTreeResponses :
         /\ response' = [response EXCEPT ![c] = Some([type |-> "response", status |-> resp.status])]
         /\ IF IsSome(TreeFailure(resp))
            THEN /\ CallThrow(c, Rethrown(Get(TreeFailure(resp))))
                 /\ UNCHANGED <<requests, treeData, sortedFiles, idx, currentTotalChars,
                                fetchedFileCount, fileContents>>
            ELSE /\ treeData' = [treeData EXCEPT ![c] = Some(resp.json)]
                 /\ sortedFiles' = [sortedFiles EXCEPT ![c] = FilterTree(resp.json.tree)]
                 /\ IF NoSuitableFiles(FilterTree(resp.json.tree))
                    THEN /\ CallThrow(c, Rethrown("No suitable source code files found in this repository."))
                         /\ UNCHANGED <<requests, idx, currentTotalChars, fetchedFileCount, fileContents>>
                    ELSE CallForLoop(c, FilterTree(resp.json.tree), 1, 0, 0, << >>)

\* FileSettles for invocation c; MaxIrregular bounds the deviating responses of
\* both invocations together
CallFileSettles(c) ==
    /\ pc[c] = "awaitFile"
    /\ UNCHANGED appVars
    /\ UNCHANGED <<url, token, response, owner, repo, repoInfo, treeData, sortedFiles>>
    /\ \E resp \in FileResponses(token[c], sortedFiles[c][idx[c]]) :
         LET file == sortedFiles[c][idx[c]]
             text == fetchFileContent(token[c], resp)
             next == LoopBody(file.path, text, fetchedFileCount[CounterCell(c)],
                              currentTotalChars[CounterCell(c)], fileContents[ListCell(c)])
             irr  == irregular + (IF Irregular(file, text) THEN 1 ELSE 0)
         IN  /\ irr <= MaxIrregular
             /\ irregular' = irr
             /\ texts' = [texts EXCEPT ![c] = Append(@, [path |-> file.path, text |-> text])]
             /\ CallForLoop(c, sortedFiles[c], idx[c] + 1, next.count, next.total, next.blocks)

NextConcurrent ==
    \/ \E c \in Calls : CallBegin(c)
    \/ \E c \in Calls : CallRepoInfoSettles(c)
    \/ \E c \in Calls : CallTreeSettles(c)
    \/ \E c \in Calls : CallFileSettles(c)

SpecConcurrent == InitConcurrent /\ [][NextConcurrent]_vars

-----------------------------------------------------------------------------
(* The filter on its own: a repository acquisition whose listing holds one node,
   drawn from paths, types and declared sizes of every kind *)

FilterPaths ==
    { "a.go", "src/main.ts", "SRC/Main.TS", "lib/nosize.py", "Makefile", "png",
      "src/a.png.ts", "readme.md.bak", "src/lockfile", "src/json.ts",
      "Dist/index.js", "Node_Modules/x.js", "BUILD/a.ts",
      "assets/logo.png", "LOGO.PNG", "yarn.lock", "Cargo.LOCK", "README.md", ".json",
      "src/app.min.js", "src/APP.MIN.JS", "pnpm-lock.yaml", "a.bundle.js", "x.woff2",
      "node_modules/left-pad/index.js", "src/distance.ts", "src/robin.ts",
      "src/object.ts", "src/rebuild.sh", "coverage.py", ".gitignore",
      ".github/workflows/ci.yml", "src/public/assets/x.ts", "third/vendor.go" }

FilterTypes == { "blob", "tree", "commit" }

\* node.size: undefined, or a number below, at and above the per-file cap
FilterSizes ==
    { None, Some(0), Some(1), Some(MAX_SINGLE_FILE_SIZE - 1),
      Some(MAX_SINGLE_FILE_SIZE), Some(MAX_SINGLE_FILE_SIZE + 1) }

FilterTreeResponses ==
    { [type |-> "response", status |-> 200,
       json |-> [tree |-> <<Node(p, t, s)>>, truncated |-> FALSE]] :
        p \in FilterPaths, t \in FilterTypes, s \in FilterSizes }

InitFilter ==
    /\ Init
    /\ url = "https://github.com/octo/app"

FilterTreeSettles == TreeSettlesWith(FilterTreeResponses)

NextFilter ==
    \/ Begin
    \/ RepoInfoSettles
    \/ FilterTreeSettles
    \/ FileSettles

SpecFilter == InitFilter /\ [][NextFilter]_vars

Next ==
    \/ Begin
    \/ BlobSettles
    \/ RepoInfoSettles
    \/ TreeSettles
    \/ FileSettles

Spec == Init /\ [][Next]_vars

\* every fetch the call waits on settles (it resolves or rejects), and the
\* continuation of a settled await is run
SpecLive ==
    /\ Spec
    /\ WF_vars(BlobSettles)
    /\ WF_vars(RepoInfoSettles)
    /\ WF_vars(TreeSettles)
    /\ WF_vars(FileSettles)

-----------------------------------------------------------------------------
(* The App component: its state, its handlers and the promises they wait on. *)
(* A text is a record: `text` holds its leading characters and `length` its  *)
(* full length.  Here `result` holds the App's result state: << >> for null, *)
(* otherwise the AnalysisResult, recorded by the text it was computed from.  *)

\* the promises and file reads that may be in flight together
MaxPending == 2

Text(t, n) == [text |-> t, length |-> n]

\* what the user may type or paste into the textarea
TextareaValues == { Text("", 0), Text("  ", 2), Text("x = 1", 5) }

\* what the chosen file may hold (an empty file reads as the empty string)
UploadedFiles == { Text("", 0), Text("y = 2", 5) }

\* what the user may type into the GitHub URL field
GithubUrlValues == { "", "  ", "https://github.com/octo/app" }

\* what fetchGithubCode may resolve with: a small bundle and one of 900,472 characters
FetchedCodes == { Text("// Repository: octo/app", 472), Text("// Repository: octo/app", 900472) }

\* the messages fetchGithubCode may reject with
GithubErrors == { "Failed to fetch repository structure." }

\* the messages analyzeCode may reject with
AnalysisErrors ==
    { "No response received from Gemini.",
      "The input token count exceeds the maximum number of tokens allowed.",
      "" }

\* !s.trim() for a string
TrimIsEmpty(s) == \A k \in 1..Len(s) : SubSeq(s, k, k) \in {" ", "\t", "\n"}

\* the AnalysisResult analyzeCode(text) resolves with
AnalysisOf(t) == [of |-> t]

\* the list without its k-th element
RemoveAt(seq, k) == SubSeq(seq, 1, k - 1) \o SubSeq(seq, k + 1, Len(seq))

\* line 116: the results view is rendered instead of the input view
ResultsView == status = "COMPLETE" /\ result # None

\* the variables of fetchGithubCode, which the App does not see
serviceVars == <<url, token, pc, requests, response, owner, repo, repoInfo, treeData, sortedFiles,
                 idx, currentTotalChars, fetchedFileCount, fileContents, texts, irregular, error>>

\* lines 96-101: the message shown for a rejected analysis
AnalyzeErrorMessage(message) ==
    IF message # "" /\ Includes(message, "token count")
    THEN "The code is too large for the AI to process. Please try analyzing fewer files or a specific module."
    ELSE IF message # "" THEN message
    ELSE "An unexpected error occurred while contacting Gemini."

\* line 259: the textarea's onChange; the textarea is disabled while ANALYZING
TextareaChange ==
    /\ ~ResultsView
    /\ status # "ANALYZING"
    /\ \E t \in TextareaValues : code' = t
    /\ UNCHANGED <<status, result, errorMsg, githubUrl, isLoadingGithub, pending>>
    /\ UNCHANGED serviceVars

\* line 211: the URL field's onChange
GithubUrlChange ==
    /\ ~ResultsView
    /\ \E u \in GithubUrlValues : githubUrl' = u
    /\ UNCHANGED <<code, status, result, errorMsg, isLoadingGithub, pending>>
    /\ UNCHANGED serviceVars

\* handleFileUpload up to reader.readAsText(file): the file input is never disabled
HandleFileUpload ==
    /\ ~ResultsView
    /\ Len(pending) < MaxPending
    /\ \E f \in UploadedFiles : pending' = Append(pending, [kind |-> "read", content |-> f])
    /\ UNCHANGED <<code, status, result, errorMsg, githubUrl, isLoadingGithub>>
    /\ UNCHANGED serviceVars

\* reader.onload
ReaderLoads ==
    /\ \E k \in 1..Len(pending) :
         /\ pending[k].kind = "read"
         /\ pending' = RemoveAt(pending, k)
         /\ IF pending[k].content.length > 0
            THEN /\ code' = pending[k].content
                 /\ errorMsg' = None
                 /\ result' = None
                 /\ status' = "IDLE"
            ELSE UNCHANGED <<code, errorMsg, result, status>>
    /\ UNCHANGED <<githubUrl, isLoadingGithub>>
    /\ UNCHANGED serviceVars

\* handleGithubFetch up to its await; the Fetch button is disabled while isLoadingGithub
HandleGithubFetch ==
    /\ ~ResultsView
    /\ ~isLoadingGithub
    /\ IF TrimIsEmpty(githubUrl)
       THEN /\ errorMsg' = Some("Please enter a valid GitHub URL.")
            /\ UNCHANGED <<isLoadingGithub, result, status, pending>>
       ELSE /\ Len(pending) < MaxPending
            /\ isLoadingGithub' = TRUE
            /\ errorMsg' = None
            /\ result' = None
            /\ status' = "IDLE"
            /\ pending' = Append(pending, [kind |-> "fetch", url |-> githubUrl])
    /\ UNCHANGED <<code, githubUrl>>
    /\ UNCHANGED serviceVars

\* handleGithubFetch after its await: fetchGithubCode resolved or rejected
GithubFetchSettles ==
    /\ \E k \in 1..Len(pending) :
         /\ pending[k].kind = "fetch"
         /\ pending' = RemoveAt(pending, k)
         /\ \/ /\ \E fetchedCode \in FetchedCodes : code' = fetchedCode
               /\ UNCHANGED errorMsg
            \/ /\ \E message \in GithubErrors : errorMsg' = Some(Rethrown(message))
               /\ UNCHANGED code
    /\ isLoadingGithub' = FALSE
    /\ UNCHANGED <<status, result, githubUrl>>
    /\ UNCHANGED serviceVars

\* handleAnalyze up to its await; the button is disabled while ANALYZING or when code is ''
HandleAnalyze ==
    /\ ~ResultsView
    /\ status # "ANALYZING"
    /\ code.length > 0
    /\ IF TrimIsEmpty(code.text)
       THEN /\ errorMsg' = Some("Please provide code to analyze.")
            /\ UNCHANGED <<status, pending>>
       ELSE IF TooLargeToAnalyze(code.length)
       THEN /\ errorMsg' = Some("Code is too large to analyze at once. Please reduce the content or number of files.")
            /\ UNCHANGED <<status, pending>>
       ELSE /\ Len(pending) < MaxPending
            /\ status' = "ANALYZING"
            /\ errorMsg' = None
            /\ pending' = Append(pending, [kind |-> "analysis", code |-> code])
    /\ UNCHANGED <<code, result, githubUrl, isLoadingGithub>>
    /\ UNCHANGED serviceVars

\* handleAnalyze after its await: analyzeCode resolved or rejected
AnalysisSettles ==
    /\ \E k \in 1..Len(pending) :
         /\ pending[k].kind = "analysis"
         /\ pending' = RemoveAt(pending, k)
         /\ \/ /\ result' = Some(AnalysisOf(pending[k].code))
               /\ status' = "COMPLETE"
               /\ UNCHANGED errorMsg
            \/ /\ \E message \in AnalysisErrors : errorMsg' = Some(AnalyzeErrorMessage(message))
               /\ status' = "ERROR"
               /\ UNCHANGED result
    /\ UNCHANGED <<code, githubUrl, isLoadingGithub>>
    /\ UNCHANGED serviceVars

\* reset, which the results view calls
Reset ==
    /\ ResultsView
    /\ code' = Text("", 0)
    /\ result' = None
    /\ status' = "IDLE"
    /\ errorMsg' = None
    /\ githubUrl' = ""
    /\ UNCHANGED <<isLoadingGithub, pending>>
    /\ UNCHANGED serviceVars

\* the App as mounted: no call of fetchGithubCode is modelled step by step
InitApp ==
    /\ code = Text("", 0)
    /\ status = "IDLE"
    /\ result = None
    /\ errorMsg = None
    /\ githubUrl = ""
    /\ isLoadingGithub = FALSE
    /\ pending = << >>
    /\ url = ""
    /\ token = None
    /\ pc = "start"
    /\ requests = << >>
    /\ response = None
    /\ owner = ""
    /\ repo = ""
    /\ repoInfo = None
    /\ treeData = None
    /\ sortedFiles = << >>
    /\ idx = 0
    /\ currentTotalChars = 0
    /\ fetchedFileCount = 0
    /\ fileContents = << >>
    /\ texts = << >>
    /\ irregular = 0
    /\ error = None

NextApp ==
    \/ TextareaChange
    \/ GithubUrlChange
    \/ HandleFileUpload
    \/ ReaderLoads
    \/ HandleGithubFetch
    \/ GithubFetchSettles
    \/ HandleAnalyze
    \/ AnalysisSettles
    \/ Reset

SpecApp == InitApp /\ [][NextApp]_vars

-----------------------------------------------------------------------------
(* Vocabulary of the properties *)

IsFileRequest(r) == r.kind \in {"contents", "rawfile"}

\* the per-file requests issued so far, in order
FileRequests == SelectSeq(requests, IsFileRequest)

\* the call has returned a repository bundle
ReturnedBundle == pc = "returned" /\ Get(result).kind = "bundle"

RECURSIVE SumOfLengths(_)
SumOfLengths(blocks) ==
    IF blocks = << >> THEN 0 ELSE Head(blocks).len + SumOfLengths(Tail(blocks))

PathsOf(seq) == [k \in 1..Len(seq) |-> seq[k].path]

\* a is b with some elements left out, the rest in b's order
RECURSIVE IsSubsequence(_, _)
IsSubsequence(a, b) ==
    IF a = << >> THEN TRUE
    ELSE IF b = << >> THEN FALSE
    ELSE IF Head(a) = Head(b) THEN IsSubsequence(Tail(a), Tail(b))
    ELSE IsSubsequence(a, Tail(b))

-----------------------------------------------------------------------------
(* C1: aggregate cap *)

\* C1 as stated: the sum of the lengths of the included file bodies is at most
\* 800,000 at every point of the fetch loop and in the returned bundle.
C1_SumNeverExceedsCap ==
    /\ SumOfLengths(fileContents) <= MAX_TOTAL_CHARS
    /\ currentTotalChars <= MAX_TOTAL_CHARS

\* C1 as amended: the counter is the sum of the included bodies; a file is only
\* requested while that sum is below 800,000, so the sum without the last included
\* body is below 800,000 (the last body may carry it past the cap); once the sum
\* has reached 800,000 the returned header reports 'Truncated: Yes (Size Limit)'.
C1_CapCheckedBeforeFetch ==
    /\ currentTotalChars = SumOfLengths(fileContents)
    /\ (pc = "awaitFile" => currentTotalChars < MAX_TOTAL_CHARS)
    /\ (fileContents # << >> =>
          currentTotalChars - fileContents[Len(fileContents)].len < MAX_TOTAL_CHARS)
    /\ (ReturnedBundle /\ SumOfLengths(Get(result).files) >= MAX_TOTAL_CHARS =>
          /\ Includes(Get(result).header, "\n// Truncated: Yes (Size Limit)\n")
          /\ Len(FileRequests) = Len(texts))

\* the cap is passed and the bundle is returned
C1_Witness ==
    /\ ReturnedBundle
    /\ SumOfLengths(Get(result).files) > MAX_TOTAL_CHARS
    /\ Len(sortedFiles) > Len(texts)

-----------------------------------------------------------------------------
(* C2: no header-only bundle *)

\* C2: an acquisition in which zero files end up included fails with
\* NoContentRetrieved; a header-only bundle is never returned as a success.
C2_NoHeaderOnlyBundle ==
    /\ (ReturnedBundle => Len(Get(result).files) > 0)
    /\ (pc \in {"returned", "thrown"} /\ texts # << >> /\ fileContents = << >> =>
          /\ pc = "thrown"
          /\ error = Some("Failed to retrieve any file content from this repository."))

-----------------------------------------------------------------------------
(* C3: file-count cap *)

\* C3: the number of included files (the counter, the list, and the file blocks
\* of the bundle) never exceeds 20, however many candidates pass the filter.
C3_AtMostMaxFiles ==
    /\ fetchedFileCount <= MAX_FILES
    /\ Len(fileContents) <= MAX_FILES
    /\ (ReturnedBundle => Len(Get(result).files) <= MAX_FILES)

\* more than 20 candidates, 20 of them included
C3_Witness ==
    /\ ReturnedBundle
    /\ Len(sortedFiles) > MAX_FILES
    /\ Len(Get(result).files) = MAX_FILES

-----------------------------------------------------------------------------
(* C4: header count equals the number of file blocks *)

\* C4: fetchedFileCount equals the length of fileContents after every loop
\* iteration, and the number after 'Analyzed Files:' in a returned header is the
\* number of file blocks of the bundle.
C4_AnalyzedFilesMatchesBlocks ==
    /\ fetchedFileCount = Len(fileContents)
    /\ (ReturnedBundle =>
          Includes(Get(result).header,
                   "\n// Analyzed Files: " \o NumberToString(Len(Get(result).files)) \o "\n"))

\* a bundle with accepted files and with a skipped or discarded one
C4_Witness ==
    /\ ReturnedBundle
    /\ Len(Get(result).files) >= 2
    /\ \E k \in 1..Len(texts) : IsSome(texts[k].text) /\ Get(texts[k].text) > MAX_SINGLE_FILE_SIZE

-----------------------------------------------------------------------------
(* C5: tree order *)

-----------------------------------------------------------------------------
(* C6: blob and gist locators *)

\* C6: for a blob or gist locator whose raw fetch succeeds the call returns
\* exactly the body of that response (no header, no markers), and the call issues
\* that single request and nothing else: no metadata, tree or file request.
C6_BlobReturnsRawBody ==
    IsBlobOrGist(url) =>
        /\ Len(requests) <= 1
        /\ \A k \in 1..Len(requests) : requests[k].kind = "blob"
        /\ (url = "https://github.com/octo/app/blob/main/src/a.ts" /\ requests # << >> =>
              requests[1].url = "https://raw.githubusercontent.com/octo/app/main/src/a.ts")
        /\ (url = "https://gist.github.com/octo/abc123" /\ requests # << >> =>
              requests[1].url = "https://gist.githubusercontent.com/octo/abc123/raw")
        /\ sortedFiles = << >> /\ fileContents = << >> /\ fetchedFileCount = 0
        /\ (IsSome(response) /\ Get(response).type = "response" /\ Ok(Get(response).status) =>
              /\ pc = "returned"
              /\ Get(result).kind = "raw"
              /\ Get(result).text = Get(response).body)

\* a blob locator answered with a body that itself looks like a bundle header
C6_Witness ==
    /\ pc = "returned"
    /\ Includes(url, "/blob/")
    /\ Get(result).kind = "raw"
    /\ StartsWith(Get(result).text, "// Repository: ")

-----------------------------------------------------------------------------
(* C7: filtered paths are never fetched *)

\* the paths C7 names
C7_Excluded(path) ==
    \/ Len(path) >= 4 /\ ToLowerCase(SubSeq(path, Len(path) - 3, Len(path))) = ".png"
    \/ Len(path) >= 5 /\ ToLowerCase(SubSeq(path, Len(path) - 4, Len(path))) = ".lock"
    \/ Includes(path, "node_modules/")

\* C7: no path ending in '.png' or '.lock' (any letter case) or containing
\* 'node_modules/' is ever requested or appears in the assembled bundle.
C7_ExcludedPathsNeverFetched ==
    /\ \A k \in 1..Len(requests) : IsFileRequest(requests[k]) => ~C7_Excluded(requests[k].path)
    /\ \A k \in 1..Len(fileContents) : ~C7_Excluded(fileContents[k].path)
    /\ (ReturnedBundle => \A k \in 1..Len(Get(result).files) : ~C7_Excluded(Get(result).files[k].path))

\* a listing that holds such paths (lower and upper case) was walked to the end
C7_Witness ==
    /\ ReturnedBundle
    /\ \E k \in 1..Len(Get(treeData).tree) :
         Get(treeData).tree[k].path = "LOGO.PNG" /\ Get(treeData).tree[k].size = None
    /\ \E k \in 1..Len(Get(treeData).tree) : Includes(Get(treeData).tree[k].path, "node_modules/")
    /\ Len(texts) = Len(sortedFiles)
    /\ Len(Get(result).files) >= 1

-----------------------------------------------------------------------------
(* C8: no candidates *)

\* C8: when no node of the tree listing survives the filter (an empty tree
\* included) the acquisition fails with NoSuitableFiles: no file request is
\* issued and no bundle is returned.
C8_NoCandidatesFails ==
    (IsSome(treeData) /\ \A k \in 1..Len(Get(treeData).tree) : ~IsCandidate(Get(treeData).tree[k])) =>
        /\ pc = "thrown"
        /\ error = Some("No suitable source code files found in this repository.")
        /\ result = None
        /\ FileRequests = << >>
        /\ Len(requests) = 2

\* a non-empty listing of which nothing survives
C8_Witness ==
    /\ pc = "thrown"
    /\ IsSome(treeData)
    /\ Get(treeData).tree = OnlyJunk
    /\ sortedFiles = << >>

-----------------------------------------------------------------------------
(* C9: the private-resource hint *)

PrivateHint == "It might be private - add a GitHub token to access."

\* the single request of the call was answered 404
C9_NotFound(kind) ==
    /\ Len(requests) = 1
    /\ requests[1].kind = kind
    /\ IsSome(response)
    /\ Get(response).type = "response"
    /\ Get(response).status = 404

\* C9: for RepositoryNotFound (metadata call answers 404) and FileNotFound
\* (blob/gist fetch answers 404) the message contains the private-resource hint
\* if and only if no credential was supplied.
C9_HintIffNoCredential ==
    /\ (C9_NotFound("repo") =>
          /\ pc = "thrown"
          /\ StartsWith(Get(error), "Repository not found. ")
          /\ (Includes(Get(error), PrivateHint) <=> token = None))
    /\ (C9_NotFound("blob") =>
          /\ pc = "thrown"
          /\ StartsWith(Get(error), "File not found. ")
          /\ (Includes(Get(error), PrivateHint) <=> token = None))

\* a metadata 404 with a credential: the hint is left out
C9_Witness ==
    /\ C9_NotFound("repo")
    /\ token # None
    /\ ~Includes(Get(error), PrivateHint)

-----------------------------------------------------------------------------
(* C10: more than 20 candidates, everything fetches *)

RECURSIVE SumOfTexts(_)
SumOfTexts(ts) ==
    IF ts = << >> THEN 0 ELSE Get(Head(ts).text) + SumOfTexts(Tail(ts))

\* the result C10 promises: the first 20 candidates, 20 requests, the header
C10_FirstTwenty ==
    /\ Len(FileRequests) = MAX_FILES
    /\ PathsOf(FileRequests) = SubSeq(PathsOf(sortedFiles), 1, MAX_FILES)
    /\ PathsOf(Get(result).files) = SubSeq(PathsOf(sortedFiles), 1, MAX_FILES)
    /\ Includes(Get(result).header, "\n// Analyzed Files: 20\n")
    /\ Includes(Get(result).header, "\n// Truncated: No\n")

\* C10 as stated: more than 20 candidates, every fetch succeeds with a body
\* under the per-file cap, the first 20 bodies total less than 800,000.
C10_AllFetchesSucceed ==
    ( /\ pc \in {"returned", "thrown"}
      /\ Len(sortedFiles) > MAX_FILES
      /\ \A k \in 1..Len(texts) : IsSome(texts[k].text) /\ Get(texts[k].text) <= MAX_SINGLE_FILE_SIZE
      /\ Len(texts) >= MAX_FILES
      /\ SumOfTexts(SubSeq(texts, 1, MAX_FILES)) < MAX_TOTAL_CHARS )
    => (ReturnedBundle /\ C10_FirstTwenty)

\* C10 as amended: ... every fetch succeeds with a non-empty body of at most the
\* per-file cap ...
C10_AllFetchesSucceedNonEmpty ==
    ( /\ pc \in {"returned", "thrown"}
      /\ Len(sortedFiles) > MAX_FILES
      /\ \A k \in 1..Len(texts) :
            /\ IsSome(texts[k].text)
            /\ Get(texts[k].text) >= 1
            /\ Get(texts[k].text) <= MAX_SINGLE_FILE_SIZE
      /\ Len(texts) >= MAX_FILES
      /\ SumOfTexts(SubSeq(texts, 1, MAX_FILES)) < MAX_TOTAL_CHARS )
    => (ReturnedBundle /\ C10_FirstTwenty)

\* the case happens: 21 candidates, 20 fetched and included, one of them a body
\* of exactly the per-file cap
C10_Witness ==
    /\ ReturnedBundle
    /\ Len(sortedFiles) > MAX_FILES
    /\ Len(texts) = MAX_FILES
    /\ \A k \in 1..Len(texts) : IsSome(texts[k].text) /\ Get(texts[k].text) >= 1
    /\ \E k \in 1..Len(texts) : Get(texts[k].text) = MAX_SINGLE_FILE_SIZE
    /\ C10_FirstTwenty


-----------------------------------------------------------------------------
(* C11: a body over the per-file cap is discarded after the fetch *)

\* C11: when a fetch delivers a body longer than 150,000 the step that takes it
\* leaves the bundle list, the file counter and the byte counter as they were,
\* and, when another candidate is left, goes on to request it.
C11_OversizeDiscarded ==
    [][ ( /\ Len(texts') = Len(texts) + 1
          /\ IsSome(texts'[Len(texts')].text)
          /\ Get(texts'[Len(texts')].text) > MAX_SINGLE_FILE_SIZE )
        => ( /\ fileContents' = fileContents
             /\ fetchedFileCount' = fetchedFileCount
             /\ currentTotalChars' = currentTotalChars
             /\ (idx < Len(sortedFiles) =>
                   /\ pc' = "awaitFile"
                   /\ Len(FileRequests') = Len(FileRequests) + 1
                   /\ requests'[Len(requests')].path = sortedFiles[idx + 1].path) ) ]_vars

\* the first candidate came back over the cap, was left out, and its successors
\* were fetched and fill the bundle up to the 20-file budget
C11_Witness ==
    /\ ReturnedBundle
    /\ Len(texts) = MAX_FILES + 1
    /\ IsSome(texts[1].text)
    /\ Get(texts[1].text) > MAX_SINGLE_FILE_SIZE
    /\ fetchedFileCount = MAX_FILES
    /\ Get(result).files[1].path = sortedFiles[2].path


-----------------------------------------------------------------------------
(* C12: the credential is used uniformly *)

\* C12: with a token every request of the call carries the Authorization header
\* and every per-file request goes to the contents endpoint; without one no
\* request carries the header and every per-file request goes to the raw host.
C12_CredentialUniform ==
    \A k \in 1..Len(requests) :
        /\ ("Authorization" \in requests[k].headers) <=> Truthy(token)
        /\ (IsFileRequest(requests[k]) =>
              IF Truthy(token)
              THEN /\ requests[k].kind = "contents"
                   /\ StartsWith(requests[k].url, "https://api.github.com/repos/")
              ELSE /\ requests[k].kind = "rawfile"
                   /\ StartsWith(requests[k].url, "https://raw.githubusercontent.com/"))

\* a call with a token that went through metadata, tree and several files
C12_Witness ==
    /\ ReturnedBundle
    /\ Truthy(token)
    /\ Len(FileRequests) >= 3
    /\ "Authorization" \in requests[Len(requests)].headers


-----------------------------------------------------------------------------
(* C13: the failure of the metadata call is decided by its status *)

RateLimitMessage ==
    "GitHub API rate limit exceeded. Please try again later or add a GitHub token for higher limits."

\* the metadata call was answered (not rejected) and nothing was issued after it
C13_MetadataAnswered ==
    /\ Len(requests) = 1
    /\ requests[1].kind = "repo"
    /\ IsSome(response)
    /\ Get(response).type = "response"

\* C13: 403 gives RateLimited, 404 RepositoryNotFound, every other non-success
\* status the generic error carrying the status text; the three messages differ
\* pairwise; a success status gives none of them and the call goes on.
C13_MetadataFailureByStatus ==
    /\ (C13_MetadataAnswered =>
          /\ ~Ok(Get(response).status)
          /\ pc = "thrown"
          /\ result = None
          /\ IF Get(response).status = 403 THEN error = Some(RateLimitMessage)
             ELSE IF Get(response).status = 404
             THEN /\ StartsWith(Get(error), "Repository not found. ")
                  /\ error # Some(RateLimitMessage)
             ELSE /\ error = Some("GitHub API Error: " \o Get(response).statusText)
                  /\ error # Some(RateLimitMessage)
                  /\ ~StartsWith(Get(error), "Repository not found. "))
    /\ (pc = "awaitTree" =>
          /\ Get(response).type = "response"
          /\ Ok(Get(response).status)
          /\ error = None
          /\ IsSome(repoInfo))

\* a metadata call answered 500: the generic error with its status text
C13_Witness ==
    /\ C13_MetadataAnswered
    /\ Get(response).status = 500
    /\ error = Some("GitHub API Error: Internal Server Error")


-----------------------------------------------------------------------------
(* C14: a 403 of a required call *)

\* the tree call was answered (not rejected) with a failure status
C14_TreeAnswered ==
    /\ Len(requests) = 2
    /\ requests[2].kind = "tree"
    /\ pc = "thrown"
    /\ Get(response).type = "response"
    /\ ~Ok(Get(response).status)

\* C14 as stated: a 403 of the metadata call or of the tree call fails with
\* RateLimited, whose message suggests a credential.
C14_Any403IsRateLimited ==
    ( /\ C13_MetadataAnswered \/ C14_TreeAnswered
      /\ Get(response).status = 403 )
    => /\ error = Some(RateLimitMessage)
       /\ Includes(Get(error), "add a GitHub token")

\* C14 amended: only a 403 of the metadata call is RateLimited and suggests a
\* credential; every failure status of the tree call, 403 included, gives the
\* one tree failure, which names no rate limit and suggests no credential; and
\* RateLimited is reported for nothing but a 403 of the metadata call.
C14_RateLimitedOnlyFromMetadata ==
    /\ ( C13_MetadataAnswered /\ Get(response).status = 403
         => /\ error = Some(RateLimitMessage)
            /\ Includes(Get(error), "add a GitHub token") )
    /\ ( C14_TreeAnswered
         => /\ error = Some("Failed to fetch repository structure.")
            /\ ~Includes(Get(error), "token")
            /\ ~Includes(Get(error), "rate limit") )
    /\ ( error = Some(RateLimitMessage)
         => C13_MetadataAnswered /\ Get(response).status = 403 )

\* the tree call answered 403 and the call failed with the tree failure
C14_Witness ==
    /\ C14_TreeAnswered
    /\ Get(response).status = 403
    /\ error = Some("Failed to fetch repository structure.")


-----------------------------------------------------------------------------
(* C15: blank locators *)

\* the locator is empty or made of white space only
IsBlank(u) == \A i \in 1..Len(u) : CharAt(u, i) \in {" ", "\t", "\n"}

\* C15: a call with an empty or white-space-only locator fails as an invalid
\* locator ("URL is required" for the empty one, the URL constructor's
\* "Invalid URL" for the others) and issues no request.
C15_BlankLocatorRejected ==
    (IsBlank(url) /\ pc # "start")
    => /\ pc = "thrown"
       /\ result = None
       /\ error = Some(IF url = "" THEN "URL is required" ELSE "Invalid URL")
       /\ requests = << >>
       /\ response = None

\* a white-space-only locator was rejected
C15_Witness ==
    /\ url = " \n "
    /\ pc = "thrown"
    /\ error = Some("Invalid URL")
    /\ requests = << >>


-----------------------------------------------------------------------------
(* C16: owner and repo are the first two non-empty path segments *)

\* the non-empty path segments of the repository-form locators, written out
C16_Segments(u) ==
    CASE u = "https://github.com"                        -> << >>
      [] u = "https://github.com/"                       -> << >>
      [] u = "https://github.com/?tab=a/b"               -> << >>
      [] u = "https://github.com/octo"                   -> <<"octo">>
      [] u = "https://github.com/octo/"                  -> <<"octo">>
      [] u = "https://github.com//octo//"                -> <<"octo">>
      [] u = "https://github.com/octo#x/y"               -> <<"octo">>
      [] u = "https://github.com/octo/app"               -> <<"octo", "app">>
      [] u = "https://github.com/octo/app/"              -> <<"octo", "app">>
      [] u = "https://github.com//octo//app"             -> <<"octo", "app">>
      [] u = "https://github.com/octo/app?tab=readme"    -> <<"octo", "app">>
      [] u = "https://github.com/octo/app/tree/main/src" -> <<"octo", "app", "tree", "main", "src">>
      [] u = "https://github.com/octo/app.git"           -> <<"octo", "app.git">>
      [] u = "http://example.org/a/b"                    -> <<"a", "b">>

\* the locators that are URLs and are not of the blob or gist form
C16_RepositoryForm(u) ==
    /\ ~Includes(u, "/blob/")
    /\ ~Includes(u, "gist.github.com")
    /\ StartsWith(u, "http://") \/ StartsWith(u, "https://")

\* C16: a repository-form locator with fewer than two non-empty path segments
\* fails with the owner/repo-form error and no request; with two or more,
\* owner and repo are the first two and the metadata call asks for them.
C16_OwnerRepoFromPath ==
    (C16_RepositoryForm(url) /\ pc # "start")
    => IF Len(C16_Segments(url)) < 2
       THEN /\ pc = "thrown"
            /\ error = Some("Invalid GitHub Repository URL. Format should be https://github.com/owner/repo")
            /\ requests = << >>
            /\ owner = "" /\ repo = ""
       ELSE /\ owner = C16_Segments(url)[1]
            /\ repo = C16_Segments(url)[2]
            /\ Len(requests) >= 1
            /\ requests[1].kind = "repo"
            /\ requests[1].url = "https://api.github.com/repos/" \o C16_Segments(url)[1]
                                 \o "/" \o C16_Segments(url)[2]

\* doubled slashes: the empty segments were skipped and the metadata call issued
C16_Witness ==
    /\ url = "https://github.com//octo//app"
    /\ owner = "octo" /\ repo = "app"
    /\ pc = "awaitTree"


-----------------------------------------------------------------------------
(* C17: the overshoot of the aggregate cap is less than one file *)

\* C17: every included body is at most 150,000 long and the bodies before the
\* last included one sum to less than 800,000, so the sum of the included
\* bodies, during the loop and in the returned bundle, is at most 949,999.
C17_OvershootBelowOneFile ==
    /\ \A k \in 1..Len(fileContents) : fileContents[k].len <= MAX_SINGLE_FILE_SIZE
    /\ (fileContents # << >> =>
          SumOfLengths(SubSeq(fileContents, 1, Len(fileContents) - 1)) < MAX_TOTAL_CHARS)
    /\ SumOfLengths(fileContents) < MAX_TOTAL_CHARS + MAX_SINGLE_FILE_SIZE
    /\ SumOfLengths(fileContents) <= 949999
    /\ (ReturnedBundle => SumOfLengths(Get(result).files) <= 949999)

\* five bodies of 149,999 and a last one of 150,000: 899,995, past the cap
C17_Witness ==
    /\ ReturnedBundle
    /\ Len(Get(result).files) = 6
    /\ Get(result).files[6].len = MAX_SINGLE_FILE_SIZE
    /\ SumOfLengths(Get(result).files) = 5 * 149999 + MAX_SINGLE_FILE_SIZE
    /\ SumOfLengths(Get(result).files) > MAX_TOTAL_CHARS


-----------------------------------------------------------------------------
(* C20: the file fetches are strictly sequential *)

\* the outcomes that were included: a non-empty body within the per-file cap
C20_Included(t) == IsSome(t.text) /\ Get(t.text) # 0 /\ Get(t.text) <= MAX_SINGLE_FILE_SIZE

\* C20: the file requests issued and not yet settled number one while the call
\* waits for a file and none otherwise; the k-th file request is for the k-th
\* candidate, so the order is the tree's and no candidate is requested twice;
\* the settled outcomes are those of the first requests, in order; and the
\* counters already account for every settled outcome when a request is out.
C20_SequentialFetches ==
    LET issued   == PathsOf(FileRequests)
        included == SelectSeq(texts, C20_Included)
    IN  /\ Len(issued) - Len(texts) = (IF pc = "awaitFile" THEN 1 ELSE 0)
        /\ Len(issued) <= Len(sortedFiles)
        /\ \A k \in 1..Len(issued) : issued[k] = sortedFiles[k].path
        /\ \A j, k \in 1..Len(issued) : j # k => issued[j] # issued[k]
        /\ \A k \in 1..Len(texts) : texts[k].path = issued[k]
        /\ (pc = "awaitFile" => idx = Len(issued))
        /\ fetchedFileCount = Len(included)
        /\ currentTotalChars = SumOfTexts(included)
        /\ PathsOf(fileContents) = PathsOf(included)

\* the third request is out after a failed and a successful fetch were settled
C20_Witness ==
    /\ pc = "awaitFile"
    /\ Len(FileRequests) = 3
    /\ Len(texts) = 2
    /\ texts[1].text = None
    /\ C20_Included(texts[2])
    /\ fetchedFileCount = 1


-----------------------------------------------------------------------------
(* C18: concurrent invocations share no counters and no content list *)

\* the counters and the list an invocation running alone has after the
\* outcomes ts: the loop body applied to each in turn, from the declarations
RECURSIVE Alone(_, _)
Alone(ts, k) ==
    IF k = 0 THEN [count |-> 0, total |-> 0, blocks |-> << >>]
    ELSE LET before == Alone(ts, k - 1)
         IN  LoopBody(ts[k].path, ts[k].text, before.count, before.total, before.blocks)

\* invocation c has entered the fetch loop
C18_InLoop(c) == IsSome(treeData[c]) /\ sortedFiles[c] # << >>

\* C18: whatever the interleaving and whatever the other invocation does, the
\* file count, the byte total and the content list of an invocation are those
\* it has running alone on the outcomes of its own fetches, it waits for its
\* next file exactly when alone it would, and it returns the bundle, or fails
\* with the failure, that alone it would.
C18_CallsIndependent ==
    \A c \in Calls :
        /\ (C18_InLoop(c) =>
              LET alone == Alone(texts[c], Len(texts[c]))
              IN  /\ fetchedFileCount[c] = alone.count
                  /\ currentTotalChars[c] = alone.total
                  /\ fileContents[c] = alone.blocks
                  /\ IF LoopContinues(sortedFiles[c], Len(texts[c]) + 1, alone.count, alone.total)
                     THEN pc[c] = "awaitFile" /\ result[c] = None /\ error[c] = None
                     ELSE /\ pc[c] = "returned"
                          /\ error[c] = None
                          /\ result[c] = Some(Bundle(owner[c], repo[c], Get(repoInfo[c]),
                                                     alone.count, alone.total, alone.blocks)))
        /\ (pc[c] = "thrown" =>
              /\ result[c] = None
              /\ texts[c] = << >>
              /\ error[c] = IF IsSome(repoInfo[c])
                            THEN TreeFailure(Get(response[c]))
                            ELSE RepoInfoFailure(token[c], Get(response[c])))

\* both invocations wait for a file, each with outcomes of its own behind it,
\* and their counters differ
C18_Witness ==
    /\ pc[1] = "awaitFile" /\ pc[2] = "awaitFile"
    /\ Len(texts[1]) = 3 /\ Len(texts[2]) = 1
    /\ fetchedFileCount[1] = 2 /\ fetchedFileCount[2] = 1
    /\ currentTotalChars[1] = 2 * 149999 /\ currentTotalChars[2] = 1


-----------------------------------------------------------------------------
(* C19: the bundle is a function of the inputs and the responses *)

\* invocation c has returned or thrown
C19_Settled(c) == pc[c] \in {"returned", "thrown"}

\* invocations c and d had the same locator, both or neither a credential, and
\* were answered alike: metadata, tree, and the fetch of each path in turn
C19_SameInputs(c, d) ==
    /\ url[c] = url[d]
    /\ Truthy(token[c]) <=> Truthy(token[d])
    /\ repoInfo[c] = repoInfo[d]
    /\ treeData[c] = treeData[d]
    /\ response[c] = response[d]
    /\ texts[c] = texts[d]

-----------------------------------------------------------------------------
(* C21: reaching a cap ends the loop normally *)

\* one of the two budget counters has reached its cap
C21_CapReached ==
    fetchedFileCount >= MAX_FILES \/ currentTotalChars >= MAX_TOTAL_CHARS

\* C21: as soon as the file count has reached 20 or the byte total 800,000 the
\* call has returned a bundle, without an error, holding every included file,
\* and no file request is outstanding or issued after the one that reached
\* the cap.
C21_CapEndsLoopNormally ==
    C21_CapReached
    => /\ pc = "returned"
       /\ error = None
       /\ Get(result).kind = "bundle"
       /\ Get(result).files = fileContents
       /\ Len(FileRequests) = Len(texts)
       /\ C20_Included(texts[Len(texts)])

\* the count cap was reached with a candidate left unrequested
C21_Witness ==
    /\ pc = "returned"
    /\ fetchedFileCount = MAX_FILES
    /\ currentTotalChars < MAX_TOTAL_CHARS
    /\ Len(sortedFiles) = Len(FileRequests) + 1
    /\ Len(Get(result).files) = MAX_FILES


-----------------------------------------------------------------------------
(* C22: the truncation field of the header *)

\* C22: the header of a returned bundle ends with 'Truncated: Yes (Size Limit)'
\* when the included bodies sum to 800,000 or more and with 'Truncated: No'
\* otherwise, whether or not the loop stopped at the 20-file cap and whether
\* or not the listing was cut short by the server.
C22_TruncatedIffSizeCap ==
    ReturnedBundle
    => LET sum == SumOfLengths(Get(result).files)
       IN  /\ (sum >= MAX_TOTAL_CHARS
                 => EndsWith(Get(result).header, "\n// Truncated: Yes (Size Limit)\n"))
           /\ (sum < MAX_TOTAL_CHARS
                 => EndsWith(Get(result).header, "\n// Truncated: No\n"))
           /\ ~( /\ EndsWith(Get(result).header, "\n// Truncated: Yes (Size Limit)\n")
                 /\ EndsWith(Get(result).header, "\n// Truncated: No\n") )

\* a listing the server had cut short was bundled and the header says
\* 'Truncated: No'
C22_Witness ==
    /\ ReturnedBundle
    /\ Get(treeData).truncated
    /\ Len(Get(result).files) >= 2
    /\ SumOfLengths(Get(result).files) < MAX_TOTAL_CHARS
    /\ EndsWith(Get(result).header, "\n// Truncated: No\n")


-----------------------------------------------------------------------------
(* C23: which nodes are fetch candidates *)

\* the paths of FilterPaths that end with no denylisted extension or suffix in
\* any letter case and contain no denylisted directory name, written out
C23_CodePaths ==
    { "a.go", "src/main.ts", "SRC/Main.TS", "lib/nosize.py", "Makefile", "png",
      "src/a.png.ts", "readme.md.bak", "src/lockfile", "src/json.ts",
      "Dist/index.js", "Node_Modules/x.js", "BUILD/a.ts" }

\* C23 for one node, by the table
C23_Candidate(node) ==
    /\ node.type = "blob"
    /\ node.path \in C23_CodePaths
    /\ (node.size = << >> \/ node.size[1] < 150000)

\* C23: the node of the listing is kept exactly when it is a blob whose path
\* ends with no denylisted extension or suffix (in any letter case) and contains
\* no denylisted directory name, and whose declared size is absent or below
\* 150,000; a file request is issued only for a kept node, so never for a
\* declared size of 150,000 or more, and a kept node is requested.
C23_CandidateIff ==
    IsSome(treeData)
    => LET node == Get(treeData).tree[1]
       IN  /\ sortedFiles = (IF C23_Candidate(node) THEN <<node>> ELSE << >>)
           /\ (FileRequests # << >> <=> C23_Candidate(node))
           /\ \A k \in 1..Len(FileRequests) :
                /\ FileRequests[k].path = node.path
                /\ node.size # Some(MAX_SINGLE_FILE_SIZE)
                /\ node.size # Some(MAX_SINGLE_FILE_SIZE + 1)

\* a node that declares no size was let through and bundled
C23_Witness ==
    /\ ReturnedBundle
    /\ Get(treeData).tree[1] = Node("Dist/index.js", "blob", None)
    /\ Len(FileRequests) = 1
    /\ Len(Get(result).files) = 1


-----------------------------------------------------------------------------
(* C24: a failed file fetch is skipped *)

\* the settled fetches C24 calls failed: a rejection, a non-success status,
\* and with a credential an envelope without base64 content or one that does
\* not decode
C24_Failed(tok, resp) ==
    \/ resp.type = "reject"
    \/ resp.type = "response" /\ ~Ok(resp.status)
    \/ /\ Truthy(tok)
       /\ resp.type = "response"
       /\ resp.json \in BadEnvelopes

\* every failed fetch makes fetchFileContent return null
C24_FailedGivesNull ==
    \A tok \in Tokens :
        \A resp \in (IF Truthy(tok) THEN ApiFileResponses(BodyLengths) ELSE RawFileResponses(BodyLengths)) :
            C24_Failed(tok, resp) => fetchFileContent(tok, resp) = None

\* C24: a failed fetch makes fetchFileContent return null, and the step that
\* takes a null leaves the file count, the byte total and the content list as
\* they were, throws nothing, and goes on: to the request for the next
\* candidate when there is one, else to the return of the bundle.
C24_FailedFetchSkipped ==
    [][ /\ C24_FailedGivesNull
        /\ ( ( /\ Len(texts') = Len(texts) + 1
               /\ texts'[Len(texts')].text = None )
             => ( /\ fileContents' = fileContents
                  /\ fetchedFileCount' = fetchedFileCount
                  /\ currentTotalChars' = currentTotalChars
                  /\ error' = None
                  /\ pc' # "thrown"
                  /\ IF idx < Len(sortedFiles)
                     THEN /\ pc' = "awaitFile"
                          /\ idx' = idx + 1
                          /\ requests'[Len(requests')].path = sortedFiles[idx + 1].path
                     ELSE /\ pc' = "returned"
                          /\ requests' = requests ) ) ]_vars

\* the first fetch failed, the second was bundled
C24_Witness ==
    /\ ReturnedBundle
    /\ Len(texts) = 2
    /\ texts[1].text = None
    /\ fetchedFileCount = 1
    /\ Get(result).files[1].path = sortedFiles[2].path


-----------------------------------------------------------------------------
(* C25: the required calls are ordered and fatal *)

\* the settled response most recently stored is a success
C25_LastResponseOk ==
    /\ IsSome(response)
    /\ Get(response).type = "response"
    /\ Ok(Get(response).status)

\* the request log of a repository acquisition: one metadata request, then at
\* most one tree request, then file requests only; the tree request is out only
\* after the metadata call succeeded, a file request only after the tree call
\* succeeded and a candidate survived; after a failure of either call the log
\* holds nothing beyond the failed request and there is no result
C25_Order ==
    (requests # << >> /\ requests[1].kind = "repo")
    => /\ \A k \in 2..Len(requests) : requests[k].kind # "repo"
       /\ \A k \in 1..Len(requests) : requests[k].kind = "tree" <=> k = 2
       /\ \A k \in 3..Len(requests) : IsFileRequest(requests[k])
       /\ (Len(requests) >= 2 => IsSome(repoInfo))
       /\ (pc = "awaitTree" => C25_LastResponseOk /\ Len(requests) = 2)
       /\ (Len(requests) >= 3 =>
             /\ IsSome(treeData)
             /\ sortedFiles # << >>
             /\ C25_LastResponseOk)
       /\ ((pc \in {"awaitFile", "returned"}) => Len(requests) >= 3)
       /\ ((IsSome(response) /\ ~C25_LastResponseOk) =>
             /\ pc = "thrown"
             /\ result = None
             /\ treeData = None
             /\ sortedFiles = << >>
             /\ Len(requests) = (IF IsSome(repoInfo) THEN 2 ELSE 1))

\* C25: every step leaves the request log in that order, and no step is taken
\* once the call has thrown or returned.
C25_RequiredCallsOrdered ==
    [][ pc \notin {"returned", "thrown"} /\ C25_Order /\ C25_Order' ]_vars

\* the metadata call succeeded, the tree call failed: two requests, no result
C25_Witness ==
    /\ pc = "thrown"
    /\ IsSome(repoInfo)
    /\ Len(requests) = 2
    /\ requests[2].kind = "tree"
    /\ Get(response).type = "response"
    /\ Get(response).status = 409
    /\ result = None


-----------------------------------------------------------------------------
(* C26: the call terminates *)

\* C26: when every awaited fetch settles, a call that was made eventually has
\* returned or thrown, and at no time has it issued more file requests than there are
\* filtered candidates.
C26_Terminates ==
    /\ (pc # "start") ~> (pc \in {"returned", "thrown"})
    /\ [](Len(FileRequests) <= Len(sortedFiles))
    /\ [](pc = "returned" => IsSome(result) /\ error = None)
    /\ [](pc = "thrown" => IsSome(error) /\ result = None)

\* a listing of more than 20 candidates was walked until the call returned,
\* one candidate left unrequested
C26_Witness ==
    /\ pc = "returned"
    /\ Len(sortedFiles) = MAX_FILES + 1
    /\ Len(FileRequests) = MAX_FILES
    /\ IsSome(result)


-----------------------------------------------------------------------------
(* C27: the length of an included body *)

\* the step stored the outcome of a fetch, and that outcome is a body of n characters
C27_Fetched(n) ==
    /\ Len(texts') = Len(texts) + 1
    /\ texts'[Len(texts')].text = Some(n)

\* C27: every included body is between 1 and 150,000 long; no kept candidate
\* declares 150,000 or more; a fetch that delivers an empty body changes neither
\* list nor counters and throws nothing; a fetch that delivers exactly 150,000
\* is pushed and counted.
C27_IncludedBodyLengths ==
    [][ /\ \A k \in 1..Len(fileContents') :
              fileContents'[k].len >= 1 /\ fileContents'[k].len <= MAX_SINGLE_FILE_SIZE
        /\ \A k \in 1..Len(sortedFiles') :
              sortedFiles'[k].size = None \/ Get(sortedFiles'[k].size) < MAX_SINGLE_FILE_SIZE
        /\ (C27_Fetched(0) =>
              /\ fileContents' = fileContents
              /\ fetchedFileCount' = fetchedFileCount
              /\ currentTotalChars' = currentTotalChars
              /\ pc' # "thrown")
        /\ (C27_Fetched(MAX_SINGLE_FILE_SIZE) =>
              /\ fileContents' = Append(fileContents, Block(sortedFiles[idx].path, MAX_SINGLE_FILE_SIZE))
              /\ fetchedFileCount' = fetchedFileCount + 1
              /\ currentTotalChars' = currentTotalChars + MAX_SINGLE_FILE_SIZE) ]_vars

\* from a listing that also holds a node declaring 150,000, one fetch came back
\* empty and one body of exactly 150,000 is in the bundle
C27_Witness ==
    /\ ReturnedBundle
    /\ \E k \in 1..Len(Get(treeData).tree) : Get(treeData).tree[k].size = Some(MAX_SINGLE_FILE_SIZE)
    /\ \E k \in 1..Len(texts) : texts[k].text = Some(0)
    /\ \E k \in 1..Len(Get(result).files) : Get(result).files[k].len = MAX_SINGLE_FILE_SIZE
    /\ Len(Get(result).files) = Len(texts) - 1


-----------------------------------------------------------------------------
(* C28: an untruncated bundle of fewer than 20 files covers every candidate *)

\* C28: when the returned header reports 'Truncated: No' and fewer than 20
\* analyzed files, the file requests are the filtered candidates, each once and
\* in order; a returned call has left a candidate unrequested only when the
\* count is 20 or the total at least 800,000.
C28_AllCandidatesRequested ==
    ReturnedBundle
    => /\ ( ( /\ EndsWith(Get(result).header, "\n// Truncated: No\n")
              /\ Len(Get(result).files) < MAX_FILES )
            => PathsOf(FileRequests) = PathsOf(sortedFiles) )
       /\ ( Len(FileRequests) < Len(sortedFiles)
            => fetchedFileCount = MAX_FILES \/ currentTotalChars >= MAX_TOTAL_CHARS )

\* 20 candidates, one fetch skipped, 19 included: every candidate was requested
C28_Witness ==
    /\ ReturnedBundle
    /\ EndsWith(Get(result).header, "\n// Truncated: No\n")
    /\ Len(Get(result).files) = MAX_FILES - 1
    /\ Len(sortedFiles) = MAX_FILES
    /\ Len(FileRequests) = MAX_FILES


-----------------------------------------------------------------------------
(* C30: the bundle and the analyzer's size check *)

\* C30: every returned repository bundle, header, marker lines and bodies
\* together, is at most 900,000 characters long, so that handleAnalyze's size
\* check does not reject it.
C30_BundleFitsAnalyzer ==
    ReturnedBundle => ~TooLargeToAnalyze(Get(result).length)

-----------------------------------------------------------------------------
(* C29: a COMPLETE result and the code state *)

\* C29 as stated: whenever status is COMPLETE, the stored result is non-null
\* and is the analysis of the text currently held in the code state.
C29_CompleteResultMatchesCode ==
    status = "COMPLETE" => result # None /\ Get(result) = AnalysisOf(code)

====
